---- MODULE Spec2Model ----
(***************************************************************************)
(* Model of scripts/fixed_point_checker.py: the fixed-point type model,    *)
(* the operator semantics (FixedPointOps), the bottom-up reduction of a    *)
(* parsed expression (TypeTransformer), the identifier/type database       *)
(* builder and the line scan of FixedPointChecker.analyze_file.            *)
(*                                                                         *)
(* Expressions are modelled as the parse trees Lark hands to the           *)
(* transformer (anonymous punctuation tokens filtered out, named tokens    *)
(* kept); a text that does not fit the grammar is the tree "unparsable".   *)
(* Lines of the input file are modelled by the shape the regular           *)
(* expressions of the checker recognise in them.                           *)
(***************************************************************************)
EXTENDS Integers, Sequences, FiniteSets, TLC

VARIABLES
    lines,              \* the input file: a sequence of lines
    known_types,        \* FixedPointChecker.known_types: name -> type
    known_registers,    \* FixedPointChecker.known_registers
    pc,                 \* position in analyze_file
    i,                  \* analyze_file: index of the line being scanned (0-based)
    last_was_comment,   \* analyze_file: flag of the scan loop
    results,            \* analyze_file: the result list
    args,               \* inputs of a direct call of a pure function
    ret                 \* what that call returned

vars == <<lines, known_types, known_registers, pc, i, last_was_comment,
          results, args, ret>>

-----------------------------------------------------------------------------
(* Python values *)

\* Python's None, as the width and fraction of a float literal carry it.
None == -1000000

\* bool(x) of an int-or-None: None and 0 are falsy.
Truthy(x) == x # None /\ x # 0

Max2(a, b) == IF a >= b THEN a ELSE b

AbsVal(x) == IF x < 0 THEN -x ELSE x

RECURSIVE Pow2(_)
Pow2(n) == IF n <= 0 THEN 1 ELSE 2 * Pow2(n - 1)

\* int(s) of a decimal digit string, given as the sequence of its digits.
RECURSIVE DigitsToInt(_)
DigitsToInt(ds) ==
    IF Len(ds) = 0 THEN 0
    ELSE 10 * DigitsToInt(SubSeq(ds, 1, Len(ds) - 1)) + ds[Len(ds)]

-----------------------------------------------------------------------------
(* FixedPointType and NumberType *)

\* FixedPointType(signed, total_bits, frac_bits); is_number marks a NumberType,
\* which carries the literal's value.
FixedPointType(s, t, f) ==
    [signed |-> s, total_bits |-> t, frac_bits |-> f, is_number |-> FALSE, value |-> 0]

NumberType(v, s, t, f) ==
    [signed |-> s, total_bits |-> t, frac_bits |-> f, is_number |-> TRUE, value |-> v]

int_bits(t) == t.total_bits - t.frac_bits

\* FixedPointType.__eq__: structural on the three fields, the value is ignored.
TypeEq(a, b) ==
    /\ a.signed = b.signed
    /\ a.total_bits = b.total_bits
    /\ a.frac_bits = b.frac_bits

\* An advisory or error string, by its kind and the name or cause it carries.
Issue(kind, detail) == [kind |-> kind, detail |-> detail]

HasIssue(issues, kind) == \E k \in DOMAIN issues : issues[k].kind = kind

\* What an operation gives back: a type and the advisories it appended, or an
\* exception (exc names its class, name the identifier of a FixedPointError).
Returned(ty, issues) == [exc |-> "none", name |-> "", ty |-> ty, issues |-> issues]

Raised(exc, name) ==
    [exc |-> exc, name |-> name, ty |-> FixedPointType(FALSE, None, None), issues |-> <<>>]

-----------------------------------------------------------------------------
(* FixedPointOps: verilog = FALSE is the strict mode evaluate_expression uses *)

\* A variant of add_types that gives a sum of two integer operands the left
\* operand's width.
add_types_LeftWidth(left, right, op, verilog) ==
    LET result_bits ==
            IF left.frac_bits # 0 /\ right.frac_bits # 0
            THEN Max2(left.total_bits, right.total_bits)
            ELSE left.total_bits
    IN  [exc |-> "none", name |-> "",
         ty |-> FixedPointType(left.signed \/ right.signed, result_bits, left.frac_bits),
         issues |-> <<>>]

\* A variant of add_types that reports every difference of the fractions
\* beyond 1, an integer operand included.
add_types_AnyMismatch(left, right, op, verilog) ==
    [exc |-> "none", name |-> "",
     ty |-> FixedPointType(IF verilog THEN left.signed /\ right.signed
                           ELSE left.signed \/ right.signed,
                           IF verilog \/ (left.frac_bits # 0 /\ right.frac_bits # 0)
                           THEN Max2(left.total_bits, right.total_bits)
                           ELSE IF left.frac_bits # 0 THEN left.total_bits
                           ELSE right.total_bits,
                           left.frac_bits),
     issues |-> IF AbsVal(left.frac_bits - right.frac_bits) > 1
                THEN <<Issue("FracMismatch", op)>> ELSE <<>>]

\* A variant of add_types whose strict width is always the larger of the two.
add_types_MaxWidth(left, right, op, verilog) ==
    [exc |-> "none", name |-> "",
     ty |-> FixedPointType(IF verilog THEN left.signed /\ right.signed
                           ELSE left.signed \/ right.signed,
                           Max2(left.total_bits, right.total_bits),
                           left.frac_bits),
     issues |-> IF left.frac_bits # 0 /\ right.frac_bits # 0
                   /\ AbsVal(left.frac_bits - right.frac_bits) > 1
                THEN <<Issue("FracMismatch", op)>> ELSE <<>>]

add_types(left, right, op, verilog) ==
    LET lf == left.frac_bits
        rf == right.frac_bits
        both == lf # 0 /\ rf # 0
    IN  IF both /\ (lf = None \/ rf = None)
        THEN Raised("TypeError", "")       \* abs(None - x)
        ELSE
        LET issues == IF both /\ AbsVal(lf - rf) > 1
                      THEN <<Issue("FracMismatch", op)>> ELSE <<>>
            needMax == verilog \/ both
        IN  IF needMax /\ (left.total_bits = None \/ right.total_bits = None)
            THEN Raised("TypeError", "")   \* max(None, x)
            ELSE
            LET result_bits ==
                    IF needMax THEN Max2(left.total_bits, right.total_bits)
                    ELSE IF Truthy(lf) THEN left.total_bits ELSE right.total_bits
                result_signed ==
                    IF verilog THEN left.signed /\ right.signed
                    ELSE left.signed \/ right.signed
            IN  Returned(FixedPointType(result_signed, result_bits, lf), issues)

\* A variant of multiply_types whose strict width is the larger of the two
\* widths, as in truncating mode.
multiply_types_MaxWidth(left, right, verilog) ==
    [exc |-> "none", name |-> "",
     ty |-> FixedPointType(IF verilog THEN left.signed /\ right.signed
                           ELSE left.signed \/ right.signed,
                           Max2(left.total_bits, right.total_bits),
                           IF left.frac_bits # 0 /\ right.frac_bits # 0
                           THEN left.frac_bits + right.frac_bits
                           ELSE IF left.frac_bits # 0 THEN left.frac_bits
                           ELSE right.frac_bits),
     issues |-> <<>>]

multiply_types(left, right, verilog) ==
    LET lf == left.frac_bits
        rf == right.frac_bits
        both == lf # 0 /\ rf # 0
        lt == left.total_bits
        rt == right.total_bits
    IN  IF (verilog \/ both) /\ (lt = None \/ rt = None)
        THEN Raised("TypeError", "")       \* max(None, x) or None + x
        ELSE IF both /\ (lf = None \/ rf = None)
        THEN Raised("TypeError", "")       \* None + x on the fractions
        ELSE
        LET result_bits ==
                IF verilog THEN Max2(lt, rt)
                ELSE IF both THEN lt + rt
                ELSE IF Truthy(lf) THEN lt ELSE rt
            result_signed ==
                IF verilog THEN left.signed /\ right.signed
                ELSE left.signed \/ right.signed
            result_frac_bits ==
                IF both THEN lf + rf
                ELSE IF Truthy(lf) THEN lf ELSE rf
        IN  Returned(FixedPointType(result_signed, result_bits, result_frac_bits), <<>>)

\* A variant of divide_types whose width follows the strict rule in both modes.
divide_types_StrictWidth(left, right, verilog) ==
    [exc |-> "none", name |-> "",
     ty |-> FixedPointType(IF verilog THEN left.signed /\ right.signed
                           ELSE left.signed \/ right.signed,
                           IF left.frac_bits # 0 /\ right.frac_bits # 0
                           THEN Max2(left.total_bits, right.total_bits)
                           ELSE IF left.frac_bits # 0 THEN left.total_bits
                           ELSE right.total_bits,
                           IF left.frac_bits # 0 /\ right.frac_bits # 0
                           THEN left.frac_bits - right.frac_bits
                           ELSE IF left.frac_bits # 0 THEN left.frac_bits
                           ELSE right.frac_bits),
     issues |-> <<>>]

divide_types(left, right, verilog) ==
    LET lf == left.frac_bits
        rf == right.frac_bits
        both == lf # 0 /\ rf # 0
        lt == left.total_bits
        rt == right.total_bits
    IN  IF (verilog \/ both) /\ (lt = None \/ rt = None)
        THEN Raised("TypeError", "")
        ELSE IF both /\ (lf = None \/ rf = None)
        THEN Raised("TypeError", "")
        ELSE
        LET result_bits ==
                IF verilog \/ both THEN Max2(lt, rt)
                ELSE IF Truthy(lf) THEN lt ELSE rt
            result_signed ==
                IF verilog THEN left.signed /\ right.signed
                ELSE left.signed \/ right.signed
            result_frac_bits ==
                IF both THEN lf - rf
                ELSE IF Truthy(lf) THEN lf ELSE rf
        IN  Returned(FixedPointType(result_signed, result_bits, result_frac_bits), <<>>)

\* The three shifts share their shape: dir is +1 for <<, -1 for >> and >>>.
ShiftTypes(left, right, dir, signIssue) ==
    IF ~right.is_number
    THEN Raised("AssertionError", "")      \* "Shift amount must be a number"
    ELSE IF left.frac_bits = None \/ left.total_bits = None
    THEN Raised("TypeError", "")           \* None + int
    ELSE
    LET zero == IF right.value = 0 THEN <<Issue("ShiftByZero", "ops")>> ELSE <<>>
        result_frac_bits ==
            IF left.frac_bits = 0 THEN 0 ELSE left.frac_bits + dir * right.value
    IN  Returned(FixedPointType(left.signed, left.total_bits + dir * right.value,
                                result_frac_bits),
                 signIssue \o zero)

shift_left_types(left, right) == ShiftTypes(left, right, 1, <<>>)

shift_right_signed_types(left, right) ==
    ShiftTypes(left, right, -1,
               IF ~left.signed THEN <<Issue("SignedShiftOnUnsigned", "")>> ELSE <<>>)

\* A variant of shift_right_unsigned_types without the integer case: the
\* fraction always shrinks by the amount.
shift_right_unsigned_types_NoIntegerCase(left, right) ==
    [exc |-> "none", name |-> "",
     ty |-> FixedPointType(left.signed, left.total_bits - right.value,
                           left.frac_bits - right.value),
     issues |-> <<>>]

shift_right_unsigned_types(left, right) ==
    ShiftTypes(left, right, -1,
               IF left.signed THEN <<Issue("UnsignedShiftOnSigned", "")>> ELSE <<>>)

-----------------------------------------------------------------------------
(* Parse trees of EXPRESSION_GRAMMAR, as the transformer receives them *)

\* number: a literal <size>'<fmt><digits> (fmt d, sd, h, b; n is the value of
\* the digits in their base), a suffix-less decimal (fmt "dec", n its value)
\* or a literal with a decimal point (fmt "float").
Num(fmt, size, n) == [k |-> "number", fmt |-> fmt, size |-> size, n |-> n]
Ident(name) == [k |-> "ident", name |-> name]
TypeAtom(tok) == [k |-> "TYPE", tok |-> tok]
TypeAnnotated(tok, sub) == [k |-> "type_annotated_expr", tok |-> tok, sub |-> sub]
Paren(e) == [k |-> "paren_expr", e |-> e]
Abs(e) == [k |-> "abs_expr", e |-> e]
Signed(text, e) == [k |-> "signed_expr", text |-> text, e |-> e]
Neg(e) == [k |-> "bit_negate", e |-> e]
ArrayAccess(name, idx) == [k |-> "array_access", name |-> name, idx |-> idx]
BitSlice(name, hi, lo) == [k |-> "bit_slice", name |-> name, hi |-> hi, lo |-> lo]
Concat(es) == [k |-> "concatenation", es |-> es]
Replication(count, val) == [k |-> "replication", count |-> count, val |-> val]
\* expr / term / factor: a first operand and a chain of <<operator, operand>>.
Chain(rule, first, rest) == [k |-> rule, first |-> first, rest |-> rest]
Unparsable == [k |-> "unparsable"]

\* A type token [SU]<digits>F<digits>, its two numbers kept as digit strings.
Tok(sign, total, frac) == [sign |-> sign, total |-> total, frac |-> frac]

-----------------------------------------------------------------------------
(* FixedPointType.__str__ *)

\* str(n) of an int n >= 0, as the sequence of its decimal digits.
RECURSIVE IntToDigits(_)
IntToDigits(n) ==
    IF n < 10 THEN <<n>> ELSE Append(IntToDigits(n \div 10), n % 10)

\* A variant of __str__ that prints the two numbers in the other order.
FixedPointType_str_FracFirst(t) ==
    [sign |-> IF t.signed THEN "S" ELSE "U",
     total |-> IntToDigits(t.frac_bits), frac |-> IntToDigits(t.total_bits)]

\* f"{sign}{self.total_bits}F{self.frac_bits}", as the token it spells
FixedPointType_str(t) ==
    Tok(IF t.signed THEN "S" ELSE "U", IntToDigits(t.total_bits),
        IntToDigits(t.frac_bits))

-----------------------------------------------------------------------------
(* FixedPointChecker.parse_type *)

parse_type(tok) ==
    IF tok.sign = "S" /\ tok.total = tok.frac     \* compares the digit strings
    THEN Raised("ValueError", "")
    ELSE Returned(FixedPointType(tok.sign = "S", DigitsToInt(tok.total),
                                 DigitsToInt(tok.frac)), <<>>)

-----------------------------------------------------------------------------
(* TypeTransformer *)

\* A variant of number that keeps the digits' value of a signed-decimal
\* literal as it is written.
number_NoSignExtension(e) ==
    [exc |-> "none", name |-> "",
     ty |-> NumberType(e.n, e.fmt = "sd", IF e.fmt = "dec" THEN 32 ELSE e.size, 0),
     issues |-> <<>>]

\* TypeTransformer.number
number(e) ==
    IF e.fmt = "float" THEN Returned(NumberType(e.n, FALSE, None, None), <<>>)
    ELSE IF e.fmt = "dec" THEN Returned(NumberType(e.n, FALSE, 32, 0), <<>>)
    ELSE IF e.fmt = "sd"
    THEN IF e.size = 0 THEN Raised("ValueError", "")   \* 1 << -1
         ELSE LET value == IF e.n > Pow2(e.size - 1) - 1 THEN e.n - Pow2(e.size)
                           ELSE e.n
              IN  Returned(NumberType(value, TRUE, e.size, 0), <<>>)
    ELSE Returned(NumberType(e.n, FALSE, e.size, 0), <<>>)

\* TypeTransformer.IDENT, the callback of every IDENT token
IDENT(name, kt) ==
    IF name \in DOMAIN kt THEN Returned(kt[name], <<>>)
    ELSE Raised("FixedPointError", name)

\* A variant of _handle_bit_slice that returns whatever width the literal
\* bounds give.
handle_bit_slice_NoWidthCheck(base_type, array_name, start_type, end_type) ==
    IF start_type.is_number /\ end_type.is_number
    THEN [exc |-> "none", name |-> "",
          ty |-> FixedPointType(base_type.signed,
                                start_type.value - end_type.value + 1,
                                base_type.frac_bits),
          issues |-> <<>>]
    ELSE [exc |-> "none", name |-> "",
          ty |-> FixedPointType(base_type.signed, base_type.total_bits,
                                base_type.frac_bits),
          issues |-> <<Issue("NonConstantSlice", array_name)>>]

\* A variant of _handle_bit_slice whose fallback gives the width of a single
\* bit and leaves no advisory.
handle_bit_slice_OneBitFallback(base_type, array_name, start_type, end_type) ==
    IF start_type.is_number /\ end_type.is_number
    THEN [exc |-> "none", name |-> "",
          ty |-> FixedPointType(base_type.signed,
                                start_type.value - end_type.value + 1,
                                base_type.frac_bits),
          issues |-> <<>>]
    ELSE [exc |-> "none", name |-> "",
          ty |-> FixedPointType(base_type.signed, 1, base_type.frac_bits),
          issues |-> <<>>]

\* TypeTransformer._handle_bit_slice, after the IDENT callback found the name
handle_bit_slice(base_type, array_name, start_type, end_type) ==
    IF start_type.is_number /\ end_type.is_number
    THEN LET width == start_type.value - end_type.value + 1
         IN  IF width <= 0 THEN Raised("ValueError", "")
             ELSE Returned(FixedPointType(base_type.signed, width, base_type.frac_bits),
                           <<>>)
    ELSE Returned(FixedPointType(base_type.signed, base_type.total_bits,
                                 base_type.frac_bits),
                  <<Issue("NonConstantSlice", array_name)>>)

\* TypeTransformer.concatenation: the loop reads args as "expr, comma, expr,
\* ..., rbrace" and so keeps args[0], args[2], ... below index len(args) - 1.
ConcatKept(n) == {j \in 1..n : j % 2 = 1 /\ j < n}

RECURSIVE ConcatWidth(_, _)
ConcatWidth(tys, js) ==
    IF js = {} THEN 0
    ELSE LET j == CHOOSE x \in js : \A y \in js : x <= y
         IN  tys[j].total_bits + ConcatWidth(tys, js \ {j})

concatenation(tys) ==
    LET kept == ConcatKept(Len(tys))
    IN  IF \E j \in kept : tys[j].total_bits = None
        THEN Raised("TypeError", "")       \* total_width += None
        ELSE IF kept = {} THEN Returned(FixedPointType(FALSE, 0, 0), <<>>)
        ELSE LET last == CHOOSE x \in kept : \A y \in kept : x >= y
             IN  Returned(FixedPointType(tys[last].signed, ConcatWidth(tys, kept),
                                         tys[last].frac_bits), <<>>)

\* TypeTransformer.replication
replication(count_type, value_type) ==
    IF count_type.is_number
    THEN IF value_type.total_bits = None THEN Raised("TypeError", "")
         ELSE Returned(FixedPointType(value_type.signed,
                                      count_type.value * value_type.total_bits,
                                      value_type.frac_bits), <<>>)
    ELSE Returned(FixedPointType(value_type.signed, 32, 0), <<>>)

\* A variant of type_annotated_expr in which the declared type always wins.
type_annotated_expr_DeclaredWins(declared_type, sub_type) ==
    [exc |-> "none", name |-> "", ty |-> declared_type, issues |-> <<>>]

\* TypeTransformer.type_annotated_expr, given the TYPE callback's type
type_annotated_expr(declared_type, sub_type) ==
    IF sub_type.is_number THEN Returned(declared_type, <<>>)
    ELSE Returned(sub_type,
                  IF ~TypeEq(declared_type, sub_type)
                  THEN <<Issue("AnnotationMismatch", "")>> ELSE <<>>)

\* self.annotation_issues.append: the advisories pre were appended before the
\* operation r, whose own advisories follow them unless it raised.
AfterIssues(pre, r) == IF r.exc = "none" THEN Returned(r.ty, pre \o r.issues) ELSE r

\* One step of the loops of expr, term and factor.
ChainStep(rule, left, op, right) ==
    IF rule = "expr" THEN add_types(left, right, op, FALSE)
    ELSE IF rule = "term"
    THEN IF op = "*" THEN multiply_types(left, right, FALSE)
         ELSE divide_types(left, right, FALSE)
    ELSE AfterIssues(IF right.is_number /\ right.value = 0
                     THEN <<Issue("ShiftByZero", op)>> ELSE <<>>,
                     IF op = "<<" THEN shift_left_types(left, right)
                     ELSE IF op = ">>" THEN shift_right_unsigned_types(left, right)
                     ELSE shift_right_signed_types(left, right))

\* TypeTransformer.expr / term / factor: fold the operands left to right.
RECURSIVE ChainFold(_, _, _, _, _)
ChainFold(rule, acc, ops, tys, j) ==
    IF acc.exc # "none" \/ j > Len(ops) THEN acc
    ELSE ChainFold(rule,
                   AfterIssues(acc.issues, ChainStep(rule, acc.ty, ops[j], tys[j])),
                   ops, tys, j + 1)

\* The first child, left to right, whose reduction raised.
FirstRaised(rs) ==
    LET bad == {j \in DOMAIN rs : rs[j].exc # "none"}
    IN  rs[CHOOSE x \in bad : \A y \in bad : x <= y]

AnyRaised(rs) == \E j \in DOMAIN rs : rs[j].exc # "none"

RECURSIVE AllIssues(_, _)
AllIssues(rs, j) == IF j > Len(rs) THEN <<>> ELSE rs[j].issues \o AllIssues(rs, j + 1)

\* After the children rs reduced without raising, the node's own callback r.
Node(rs, r) ==
    IF AnyRaised(rs) THEN FirstRaised(rs)
    ELSE IF r.exc # "none" THEN r
    ELSE Returned(r.ty, AllIssues(rs, 1) \o r.issues)

\* Transformer.transform: children first, left to right, then the rule's
\* callback; the first exception ends the reduction.
RECURSIVE Eval(_, _)
Eval(e, kt) ==
    CASE e.k = "number" -> number(e)
      [] e.k = "ident" -> IDENT(e.name, kt)
      [] e.k = "TYPE" -> parse_type(e.tok)
      [] e.k = "type_annotated_expr" ->
            LET rs == <<parse_type(e.tok), Eval(e.sub, kt)>>
            IN  Node(rs, IF AnyRaised(rs) THEN rs[1]
                         ELSE type_annotated_expr(rs[1].ty, rs[2].ty))
      [] e.k = "paren_expr" -> Eval(e.e, kt)
      [] e.k = "bit_negate" -> Eval(e.e, kt)
      [] e.k = "abs_expr" ->
            LET rs == <<Eval(e.e, kt)>>
            IN  Node(rs, Returned(FixedPointType(FALSE, rs[1].ty.total_bits,
                                                 rs[1].ty.frac_bits), <<>>))
      [] e.k = "signed_expr" ->
            LET rs == <<Eval(e.e, kt)>>
            IN  Node(rs, Returned(FixedPointType(TRUE, rs[1].ty.total_bits,
                                                 rs[1].ty.frac_bits),
                                  IF e.text = "signed"
                                  THEN <<Issue("BareSigned", "")>> ELSE <<>>))
      [] e.k = "array_access" ->
            LET rs == <<IDENT(e.name, kt), Eval(e.idx, kt)>>
            IN  Node(rs, Returned(rs[1].ty, <<>>))
      [] e.k = "bit_slice" ->
            LET rs == <<IDENT(e.name, kt), Eval(e.hi, kt), Eval(e.lo, kt)>>
            IN  Node(rs, IF AnyRaised(rs) THEN rs[1]
                         ELSE handle_bit_slice(rs[1].ty, e.name, rs[2].ty, rs[3].ty))
      [] e.k = "replication" ->
            LET rs == <<Eval(e.count, kt), Eval(e.val, kt)>>
            IN  Node(rs, IF AnyRaised(rs) THEN rs[1]
                         ELSE replication(rs[1].ty, rs[2].ty))
      [] e.k = "concatenation" ->
            LET rs == [j \in DOMAIN e.es |-> Eval(e.es[j], kt)]
            IN  Node(rs, IF AnyRaised(rs) THEN rs[1]
                         ELSE concatenation([j \in DOMAIN rs |-> rs[j].ty]))
      [] e.k \in {"expr", "term", "factor"} ->
            LET rs == <<Eval(e.first, kt)>>
                      \o [j \in DOMAIN e.rest |-> Eval(e.rest[j][2], kt)]
            IN  Node(rs, IF AnyRaised(rs) THEN rs[1]
                         ELSE ChainFold(e.k, Returned(rs[1].ty, <<>>),
                                        [j \in DOMAIN e.rest |-> e.rest[j][1]],
                                        [j \in DOMAIN e.rest |-> rs[j + 1].ty], 1))
      [] OTHER -> Raised("ValueError", "")

\* A variant of NewTransformer that goes on with the list the previous
\* transformer left.
NewTransformer_SharedList(previous) == previous

\* TypeTransformer(self): the annotation_issues of a new transformer, whatever
\* list the previous transformer left
NewTransformer(previous) == <<>>

\* FixedPointChecker.evaluate_expression: a FixedPointError passes through, any
\* other exception (of the parser or of a callback) becomes a ValueError.
evaluate_expression(e, kt) ==
    IF e.k = "unparsable" THEN Raised("ValueError", "")
    ELSE LET r == Eval(e, kt)
         IN  IF r.exc = "none" \/ r.exc = "FixedPointError" THEN r
             ELSE Raised("ValueError", "")

-----------------------------------------------------------------------------
(* Lines of the input file, by the shape the checker's patterns see *)

Blank == [kind |-> "blank"]
\* a comment that neither pattern of parse_comment matches
PlainComment == [kind |-> "comment"]
\* "// TOK name = expr" or "// expr = TOK"
Annotation(tok, expr) == [kind |-> "annotation", tok |-> tok, expr |-> expr]
\* "lhs <= rhs;" or "lhs = rhs;"
Assignment(rhs) == [kind |-> "assignment", rhs |-> rhs]
\* any other non-blank line that is no comment and holds no "="
Other == [kind |-> "other"]
\* "reg [signed] [msb:lsb] name [dims]; // comment": annot is <<>> or <<tok>>,
\* the first type token of the trailing comment
RegDecl(signedKw, msb, lsb, name, annot) ==
    [kind |-> "reg", signedKw |-> signedKw, msb |-> msb, lsb |-> lsb,
     name |-> name, annot |-> annot]
\* "localparam [signed] [msb:lsb] name = value; // comment"
LocalparamDecl(signedKw, msb, lsb, name, rhs, annot) ==
    [kind |-> "localparam", signedKw |-> signedKw, msb |-> msb, lsb |-> lsb,
     name |-> name, rhs |-> rhs, annot |-> annot]

\* line.strip().startswith('//')
IsCommentLine(line) == line.kind \in {"comment", "annotation"}

\* FixedPointChecker.parse_verilog_assignment: <<rhs>>, or <<>> for None
parse_verilog_assignment(line) ==
    IF line.kind \in {"assignment", "localparam"} THEN <<line.rhs>> ELSE <<>>

\* '+' in rhs or '-' in rhs or '*' in rhs or '/' in rhs, on the parsed text
RECURSIVE ContainsArith(_)
ContainsArith(e) ==
    CASE e.k \in {"expr", "term"} -> TRUE
      [] e.k = "factor" ->
            ContainsArith(e.first)
            \/ \E j \in DOMAIN e.rest : ContainsArith(e.rest[j][2])
      [] e.k \in {"paren_expr", "abs_expr", "signed_expr", "bit_negate"} ->
            ContainsArith(e.e)
      [] e.k = "type_annotated_expr" -> ContainsArith(e.sub)
      [] e.k = "array_access" -> ContainsArith(e.idx)
      [] e.k = "bit_slice" -> ContainsArith(e.hi) \/ ContainsArith(e.lo)
      [] e.k = "replication" -> ContainsArith(e.count) \/ ContainsArith(e.val)
      [] e.k = "concatenation" -> \E j \in DOMAIN e.es : ContainsArith(e.es[j])
      [] OTHER -> FALSE

-----------------------------------------------------------------------------
(* The identifier/type database *)

\* FixedPointChecker.__init__
InitialKnownTypes == [n \in {"PITCH_REF_C2"} |-> FixedPointType(FALSE, 7, 0)]

\* A variant of DeclaredType that takes the width, too, from the type token.
DeclaredType_TokenWidth(line) ==
    IF Len(line.annot) > 0
    THEN FixedPointType(line.annot[1].sign = "S", DigitsToInt(line.annot[1].total),
                        DigitsToInt(line.annot[1].frac))
    ELSE FixedPointType(line.signedKw, line.msb - line.lsb + 1, 0)

\* The type parse_reg_declaration and parse_localparam_declaration give a line.
DeclaredType(line) ==
    LET total_bits == line.msb - line.lsb + 1
    IN  IF Len(line.annot) > 0
        THEN FixedPointType(line.annot[1].sign = "S", total_bits,
                            DigitsToInt(line.annot[1].frac))
        ELSE FixedPointType(line.signedKw, total_bits, 0)

parse_reg_declaration(line) ==
    IF line.kind = "reg" THEN <<line.name, DeclaredType(line)>> ELSE <<>>

parse_localparam_declaration(line) ==
    IF line.kind = "localparam" THEN <<line.name, DeclaredType(line)>> ELSE <<>>

\* name.endswith('_8x') and name[:-3], on the register names of the inputs
EndsWith8x(name) == name \in {"arr_8x"}
StripSuffix(name) == IF name = "arr_8x" THEN "arr" ELSE name

Put(kt, name, ty) == [n \in DOMAIN kt \cup {name} |-> IF n = name THEN ty ELSE kt[n]]

\* A variant of BuildLine that stores a register's type only when its
\* declaration carries a type token.
BuildLine_TypeOnlyIfAnnotated(db, line) ==
    IF line.kind = "reg"
    THEN [types |-> IF Len(line.annot) > 0
                    THEN [n \in DOMAIN db.types \cup {line.name} |->
                             IF n = line.name
                             THEN FixedPointType(line.annot[1].sign = "S",
                                                 line.msb - line.lsb + 1,
                                                 DigitsToInt(line.annot[1].frac))
                             ELSE db.types[n]]
                    ELSE db.types,
          registers |-> db.registers \cup {line.name}]
    ELSE db

\* One iteration of the loop of build_type_database, on db = [types, registers].
BuildLine(db, line) ==
    LET reg == parse_reg_declaration(line)
        lp == parse_localparam_declaration(line)
    IN  IF Len(reg) > 0
        THEN IF EndsWith8x(reg[1])
             THEN [types |-> Put(Put(db.types, reg[1], reg[2]),
                                 StripSuffix(reg[1]), reg[2]),
                   registers |-> db.registers \cup {reg[1], StripSuffix(reg[1])}]
             ELSE [types |-> Put(db.types, reg[1], reg[2]),
                   registers |-> db.registers \cup {reg[1]}]
        ELSE IF Len(lp) > 0
        THEN [types |-> Put(db.types, lp[1], lp[2]), registers |-> db.registers]
        ELSE db

RECURSIVE build_type_database(_, _, _)
build_type_database(db, ls, j) ==
    IF j > Len(ls) THEN db
    ELSE build_type_database(BuildLine(db, ls[j]), ls, j + 1)

-----------------------------------------------------------------------------
(* FixedPointChecker.check_overflow and the results of analyze_file *)

\* A variant of check_overflow that reports a width from twice the declared
\* width on, not only beyond it.
check_overflow_FromTwice(computed, declared) ==
    [exc |-> "none",
     issues |->
        (IF computed.total_bits >= declared.total_bits * 2
         THEN <<Issue("Width", "")>> ELSE <<>>)
        \o (IF computed.frac_bits # declared.frac_bits
            THEN <<Issue("Frac", "")>> ELSE <<>>)
        \o (IF computed.signed # declared.signed
               /\ ~(computed.signed /\ computed.total_bits = declared.total_bits + 1)
               /\ ~(declared.signed /\ declared.total_bits = computed.total_bits + 1)
            THEN <<Issue("Signedness", "")>> ELSE <<>>)]

\* issues, or the TypeError of comparing a None width
check_overflow(computed, declared) ==
    IF computed.total_bits = None THEN [exc |-> "TypeError", issues |-> <<>>]
    ELSE
    LET width == IF computed.total_bits > declared.total_bits * 2
                 THEN <<Issue("Width", "")>> ELSE <<>>
        frac == IF computed.frac_bits # declared.frac_bits
                THEN <<Issue("Frac", "")>> ELSE <<>>
        implicit ==
            \/ computed.signed /\ ~declared.signed
               /\ computed.total_bits = declared.total_bits + 1
            \/ ~computed.signed /\ declared.signed
               /\ declared.total_bits = computed.total_bits + 1
        sign == IF computed.signed # declared.signed /\ ~implicit
                THEN <<Issue("Signedness", "")>> ELSE <<>>
    IN  [exc |-> "none", issues |-> width \o frac \o sign]

\* 'OK' if not issues else 'ERROR'
StatusOf(issues) == IF Len(issues) = 0 THEN "OK" ELSE "ERROR"

\* A variant of NextVerilogLine that scans on to the first assignment,
\* passing over every other line.
NextVerilogLine_SkipNonAssignments(ls, n) ==
    LET cand == {j \in (n + 1)..Len(ls) : ls[j].kind \in {"assignment", "localparam"}}
    IN  IF cand = {} THEN 0 ELSE CHOOSE x \in cand : \A y \in cand : x <= y

\* The forward scan for the next Verilog line: the 1-based number of the first
\* line after line number n that is neither blank nor a comment, or 0.
NextVerilogLine(ls, n) ==
    LET cand == {j \in (n + 1)..Len(ls) : ls[j].kind # "blank" /\ ~IsCommentLine(ls[j])}
    IN  IF cand = {} THEN 0 ELSE CHOOSE x \in cand : \A y \in cand : x <= y

\* A result's optional type: <<>> is None.
CommentResult(line_num, expression, declared, computed, issues) ==
    [line |-> line_num, expression |-> expression, declared |-> <<declared>>,
     computed |-> <<computed>>, issues |-> issues, status |-> StatusOf(issues)]

PairedResult(base, vline, vexpr, vcomputed, vissues, vstatus) ==
    [line |-> base.line, expression |-> base.expression, declared |-> base.declared,
     computed |-> base.computed, issues |-> base.issues, status |-> base.status,
     verilog_line |-> vline, verilog_expression |-> vexpr,
     verilog_computed |-> vcomputed, verilog_issues |-> vissues,
     verilog_status |-> vstatus]

FailedResult(line_num, expression, declared, issue, status) ==
    [line |-> line_num, expression |-> expression, declared |-> <<declared>>,
     computed |-> <<>>, issues |-> <<issue>>, status |-> status]

\* A variant of CommentFailure that classifies by the failure alone: every
\* unknown identifier is taken for a register missing its annotation.
CommentFailure_AlwaysMissingType(line_num, expression, declared, ev, registers) ==
    IF ev.exc = "FixedPointError"
    THEN FailedResult(line_num, expression, declared,
                      Issue("MissingTypeAnnotation", ev.name), "MISSING_TYPE")
    ELSE FailedResult(line_num, expression, declared,
                      Issue("ParseError", ""), "PARSE_ERROR")

\* The except branch of the comment side.
CommentFailure(line_num, expression, declared, ev, registers) ==
    IF ev.exc = "FixedPointError"       \* "Unknown identifier:" in error_str
    THEN IF ev.name \in registers
         THEN FailedResult(line_num, expression, declared,
                           Issue("MissingTypeAnnotation", ev.name), "MISSING_TYPE")
         ELSE FailedResult(line_num, expression, declared,
                           Issue("ParseError", ev.name), "PARSE_ERROR")
    ELSE FailedResult(line_num, expression, declared,
                      Issue("ParseError", ""), "PARSE_ERROR")

\* The body of the try of the comment side once the expression evaluated and
\* check_overflow returned: the pairing with the next Verilog line.
CommentSuccess(ls, kt, line_num, expression, declared, computed, issues) ==
    LET base == CommentResult(line_num, expression, declared, computed, issues)
        v == NextVerilogLine(ls, line_num)
        parsed == IF v = 0 THEN <<>> ELSE parse_verilog_assignment(ls[v])
    IN  IF Len(parsed) = 0 THEN base
        ELSE
        LET ev == evaluate_expression(parsed[1], kt)
            co == IF ev.exc = "none" THEN check_overflow(ev.ty, declared)
                  ELSE [exc |-> ev.exc, issues |-> <<>>]
        IN  IF co.exc # "none"
            THEN PairedResult(base, v, parsed[1], <<>>,
                              <<Issue("ParseError", ev.name)>>, "PARSE_ERROR")
            ELSE
            LET verilog_issues ==
                    ev.issues \o (IF ~TypeEq(ev.ty, computed)
                                  THEN <<Issue("VerilogTypeMismatch", "")>> ELSE <<>>)
                all == co.issues \o verilog_issues
            IN  PairedResult(base, v, parsed[1], <<ev.ty>>, all, StatusOf(all))

\* A variant of UnpairedResult without the test for an arithmetic operator.
UnpairedResult_NoOperatorTest(line, line_num, kt) ==
    LET parsed == parse_verilog_assignment(line)
    IN  IF Len(parsed) = 0 THEN <<>>
        ELSE LET ev == evaluate_expression(parsed[1], kt)
             IN  IF ev.exc # "none" \/ ev.ty.frac_bits = None THEN <<>>
                 ELSE IF ev.ty.frac_bits > 0
                 THEN << [line |-> line_num, expression |-> parsed[1],
                          declared |-> <<>>, computed |-> <<ev.ty>>,
                          issues |-> ev.issues \o <<Issue("MissingComment", "")>>,
                          status |-> "MISSING_COMMENT"] >>
                 ELSE <<>>

\* The result, <<>> or <<r>>, of a non-comment line the scan parses as Verilog.
UnpairedResult(line, line_num, kt) ==
    LET parsed == parse_verilog_assignment(line)
    IN  IF Len(parsed) = 0 THEN <<>>
        ELSE LET ev == evaluate_expression(parsed[1], kt)
             IN  IF ev.exc # "none" THEN <<>>            \* silently eaten
                 ELSE IF ev.ty.frac_bits = None THEN <<>> \* TypeError, eaten
                 ELSE IF ev.ty.frac_bits > 0 /\ ContainsArith(parsed[1])
                 THEN << [line |-> line_num, expression |-> parsed[1],
                          declared |-> <<>>, computed |-> <<ev.ty>>,
                          issues |-> ev.issues \o <<Issue("MissingComment", "")>>,
                          status |-> "MISSING_COMMENT"] >>
                 ELSE <<>>

-----------------------------------------------------------------------------
(* Inputs *)

MaxBody == 3        \* lines of a file after its declarations
MaxBits == 4        \* widths and fractions of the operand types of direct calls
MaxShift == 2       \* suffix-less shift amounts of direct calls

U8F0 == Tok("U", <<8>>, <<0>>)
U8F4 == Tok("U", <<8>>, <<4>>)
S8F8 == Tok("S", <<8>>, <<8>>)
S12F8 == Tok("S", <<1, 2>>, <<8>>)

\* vol + 1
VolPlus1 == Chain("expr", Ident("vol"), << <<"+", Num("dec", 0, 1)>> >>)
\* a + a
APlusA == Chain("expr", Ident("a"), << <<"+", Ident("a")>> >>)
\* 1.5
FloatLit == Num("float", 0, 1)
\* {vol}
ConcatVol == Concat(<<Ident("vol")>>)

DeclVol == RegDecl(FALSE, 7, 0, "vol", <<U8F0>>)

\* The declarations a file starts with.
Headers ==
    { <<DeclVol>>,
      <<DeclVol, RegDecl(FALSE, 7, 0, "a", <<U8F4>>)>>,
      <<DeclVol, RegDecl(FALSE, 7, 0, "arr_8x", <<U8F4>>),
        LocalparamDecl(TRUE, 11, 0, "a", Num("sd", 12, 224), <<S12F8>>)>> }

BodyLines ==
    { Blank, PlainComment, Other,
      Annotation(U8F0, VolPlus1), Annotation(U8F4, APlusA),
      Annotation(S8F8, APlusA), Annotation(U8F4, FloatLit),
      Annotation(U8F0, ConcatVol), Annotation(U8F0, Unparsable),
      Assignment(VolPlus1), Assignment(APlusA), Assignment(Ident("a")),
      Assignment(FloatLit) }

Bodies == UNION {[1..n -> BodyLines] : n \in 0..MaxBody}

Files == {h \o b : h \in Headers, b \in Bodies}

-----------------------------------------------------------------------------
(* analyze_file *)

Init ==
    /\ lines \in Files
    /\ known_types = InitialKnownTypes
    /\ known_registers = {}
    /\ pc = "start"
    /\ i = 0
    /\ last_was_comment = FALSE
    /\ results = <<>>
    /\ args = <<>>
    /\ ret = <<>>

\* self.build_type_database(filename), then the file is read again
BuildTypeDatabase ==
    /\ pc = "start"
    /\ LET db == build_type_database([types |-> known_types,
                                      registers |-> known_registers], lines, 1)
       IN  /\ known_types' = db.types
           /\ known_registers' = db.registers
    /\ pc' = "scan"
    /\ UNCHANGED <<lines, i, last_was_comment, results, args, ret>>

\* a comment line parse_comment does not match
ScanPlainComment ==
    /\ pc = "scan" /\ i < Len(lines)
    /\ lines[i + 1].kind = "comment"
    /\ last_was_comment' = FALSE
    /\ i' = i + 1
    /\ UNCHANGED <<lines, known_types, known_registers, pc, results, args, ret>>

\* a comment line parse_comment matches, and whose type token parse_type takes
ScanAnnotation ==
    /\ pc = "scan" /\ i < Len(lines)
    /\ lines[i + 1].kind = "annotation"
    /\ parse_type(lines[i + 1].tok).exc = "none"
    /\ LET line_num == i + 1
           expression == lines[i + 1].expr
           declared_type == parse_type(lines[i + 1].tok).ty
           ev == evaluate_expression(expression, known_types)
           co == IF ev.exc = "none" THEN check_overflow(ev.ty, declared_type)
                 ELSE [exc |-> ev.exc, issues |-> <<>>]
           result ==
               IF co.exc = "none"
               THEN CommentSuccess(lines, known_types, line_num, expression,
                                   declared_type, ev.ty, co.issues \o ev.issues)
               ELSE CommentFailure(line_num, expression, declared_type, ev,
                                   known_registers)
       IN  results' = Append(results, result)
    /\ last_was_comment' = TRUE
    /\ i' = i + 1
    /\ UNCHANGED <<lines, known_types, known_registers, pc, args, ret>>

\* parse_comment calls parse_type outside every try: its ValueError leaves
\* analyze_file, and no result list is returned
ScanAnnotationRaises ==
    /\ pc = "scan" /\ i < Len(lines)
    /\ lines[i + 1].kind = "annotation"
    /\ parse_type(lines[i + 1].tok).exc # "none"
    /\ pc' = "raised"
    /\ UNCHANGED <<lines, known_types, known_registers, i, last_was_comment,
                   results, args, ret>>

\* a line that does not start with //
ScanNonComment ==
    /\ pc = "scan" /\ i < Len(lines)
    /\ ~IsCommentLine(lines[i + 1])
    /\ IF last_was_comment
       THEN results' = results                      \* "Already handled"
       ELSE results' = results \o UnpairedResult(lines[i + 1], i + 1, known_types)
    /\ last_was_comment' = FALSE
    /\ i' = i + 1
    /\ UNCHANGED <<lines, known_types, known_registers, pc, args, ret>>

\* return results
Return ==
    /\ pc = "scan" /\ i = Len(lines)
    /\ pc' = "done"
    /\ UNCHANGED <<lines, known_types, known_registers, i, last_was_comment,
                   results, args, ret>>

Next ==
    \/ BuildTypeDatabase
    \/ ScanPlainComment
    \/ ScanAnnotation
    \/ ScanAnnotationRaises
    \/ ScanNonComment
    \/ Return

Spec == Init /\ [][Next]_vars

-----------------------------------------------------------------------------
(* Properties of analyze_file *)

\* The lines the scan has handled, and the results it emitted for line n.
Scanned == IF pc \in {"scan", "done"} THEN 1..i ELSE {}
ResultsFor(n) == {k \in DOMAIN results : results[k].line = n}
IsPaired(r) == "verilog_line" \in DOMAIN r

\* C1: analyze_file never aborts because of the content of a line: whatever
\* the lines hold, the scan reaches the last line and returns a result list.
C1_NeverAborts == pc # "raised"

\* The file of C2: reg [7:0] vol; // U8F0 / // U8F0 result = vol + 1 /
\* result <= vol + 1;
C2File == <<DeclVol, Annotation(U8F0, VolPlus1), Assignment(VolPlus1)>>

C2_Witness == pc = "done" /\ lines = C2File

\* C2 as claimed: for that file analyze_file emits one combined result, both
\* sides computing the same type, both statuses OK and both issue lists empty.
C2_BothSidesOK ==
    (pc = "done" /\ lines = C2File) =>
        /\ Len(results) = 1
        /\ IsPaired(results[1])
        /\ Len(results[1].verilog_computed) = 1
        /\ TypeEq(results[1].computed[1], results[1].verilog_computed[1])
        /\ results[1].status = "OK" /\ Len(results[1].issues) = 0
        /\ results[1].verilog_status = "OK" /\ Len(results[1].verilog_issues) = 0

\* C2 amended: for that file analyze_file emits one combined result, both
\* sides computing the same type U32F0 (the suffix-less literal 1 is 32 bits
\* wide and a sum of two integers takes the right operand's width), with no
\* comment/statement mismatch advisory; each side carries exactly the width
\* issue against the declared U8F0 (32 > 2*8) and so has status ERROR.
C2_SameTypeWidthIssue ==
    (pc = "done" /\ lines = C2File) =>
        /\ Len(results) = 1
        /\ IsPaired(results[1])
        /\ results[1].line = 2 /\ results[1].verilog_line = 3
        /\ Len(results[1].verilog_computed) = 1
        /\ TypeEq(results[1].computed[1], FixedPointType(FALSE, 32, 0))
        /\ TypeEq(results[1].verilog_computed[1], FixedPointType(FALSE, 32, 0))
        /\ results[1].issues = <<Issue("Width", "")>>
        /\ results[1].verilog_issues = <<Issue("Width", "")>>
        /\ results[1].status = "ERROR"
        /\ results[1].verilog_status = "ERROR"

\* C3: a statement line that was paired with an annotation comment is never
\* also reported with status MISSING_COMMENT.
C3_PairedNeverMissingComment ==
    \A k1, k2 \in DOMAIN results :
        IsPaired(results[k1]) =>
            ~(results[k2].status = "MISSING_COMMENT"
              /\ results[k2].line = results[k1].verilog_line)


\* The statement lines that are the nearest non-blank, non-comment line after
\* a comment parse_comment matched.
PairedLines ==
    {NextVerilogLine(lines, n) : n \in {m \in DOMAIN lines : lines[m].kind = "annotation"}}

\* An assignment line whose right-hand side evaluates to a type with
\* frac_bits > 0 and holds one of + - * /.
FractionalArithmetic(n) ==
    LET ev == evaluate_expression(parse_verilog_assignment(lines[n])[1], known_types)
    IN  /\ ev.exc = "none"
        /\ ev.ty.frac_bits # None /\ ev.ty.frac_bits > 0
        /\ ContainsArith(parse_verilog_assignment(lines[n])[1])

UnpairedAssignment(n) ==
    Len(parse_verilog_assignment(lines[n])) > 0 /\ n \notin PairedLines

\* C4: for every assignment line that is not the paired statement of an
\* annotation comment: if its right-hand side evaluates to a type with
\* frac_bits > 0 and contains + - * or /, exactly one result is emitted for
\* the line, with status MISSING_COMMENT and no declared type; otherwise no
\* result is emitted for the line.
C4_MissingCommentExactly ==
    \A n \in Scanned :
        UnpairedAssignment(n) =>
            IF FractionalArithmetic(n)
            THEN /\ Cardinality(ResultsFor(n)) = 1
                 /\ \A k \in ResultsFor(n) :
                        /\ results[k].status = "MISSING_COMMENT"
                        /\ Len(results[k].declared) = 0
            ELSE ResultsFor(n) = {}

C4_Witness ==
    \E n \in Scanned :
        /\ UnpairedAssignment(n) /\ FractionalArithmetic(n)
        /\ \E m \in Scanned :
              /\ UnpairedAssignment(m) /\ ~FractionalArithmetic(m)
              /\ lines[m].kind = "assignment"

\* The annotation comments whose expression fails on the lookup of an
\* identifier that is absent from the identifier table.
UnknownIdentifierAt(n) ==
    /\ lines[n].kind = "annotation"
    /\ evaluate_expression(lines[n].expr, known_types).exc = "FixedPointError"

\* C5: when the expression of an annotation comment references an identifier
\* that is absent from the identifier table, the result emitted for the
\* comment line has no computed type, and has status MISSING_TYPE if the
\* name is a known register and otherwise status PARSE_ERROR with an issue
\* naming the identifier.
C5_UnknownIdentifierResult ==
    \A n \in Scanned :
        UnknownIdentifierAt(n) =>
            LET name == evaluate_expression(lines[n].expr, known_types).name
            IN  /\ Cardinality(ResultsFor(n)) = 1
                /\ \A k \in ResultsFor(n) :
                      /\ Len(results[k].computed) = 0
                      /\ ~IsPaired(results[k])
                      /\ IF name \in known_registers
                         THEN results[k].status = "MISSING_TYPE"
                         ELSE /\ results[k].status = "PARSE_ERROR"
                              /\ results[k].issues = <<Issue("ParseError", name)>>

C5_Witness ==
    /\ pc = "done"
    /\ \E n \in Scanned :
          /\ UnknownIdentifierAt(n)
          /\ \E k \in ResultsFor(n) :
                results[k].status = "PARSE_ERROR"
                /\ results[k].issues = <<Issue("ParseError", "a")>>

\* C6: in every result whose comment expression evaluated successfully the
\* comment-side status is OK exactly when the comment-side issue list is
\* empty and ERROR otherwise, never PARSE_ERROR; likewise for the statement
\* side when the paired statement evaluated successfully.
C6_StatusFollowsIssues ==
    \A n \in Scanned :
        (lines[n].kind = "annotation"
         /\ evaluate_expression(lines[n].expr, known_types).exc = "none") =>
            \A k \in ResultsFor(n) :
                /\ results[k].status = StatusOf(results[k].issues)
                /\ (IsPaired(results[k])
                    /\ evaluate_expression(results[k].verilog_expression,
                                           known_types).exc = "none") =>
                        results[k].verilog_status
                            = StatusOf(results[k].verilog_issues)

\* C7: when both the comment's expression and the paired statement's
\* right-hand side evaluate successfully, the combined result carries the
\* comment/statement mismatch advisory and a statement-side ERROR status
\* exactly when the two computed types differ.
C7_MismatchIffTypesDiffer ==
    \A n \in Scanned :
        lines[n].kind = "annotation" =>
            LET ev == evaluate_expression(lines[n].expr, known_types)
                v == NextVerilogLine(lines, n)
                parsed == IF v = 0 THEN <<>> ELSE parse_verilog_assignment(lines[v])
            IN  (ev.exc = "none" /\ Len(parsed) > 0
                 /\ evaluate_expression(parsed[1], known_types).exc = "none") =>
                    \A k \in ResultsFor(n) :
                        /\ IsPaired(results[k])
                        /\ (HasIssue(results[k].verilog_issues, "VerilogTypeMismatch")
                            /\ results[k].verilog_status = "ERROR")
                           <=> ~TypeEq(ev.ty,
                                       evaluate_expression(parsed[1], known_types).ty)

\* A well-formed FixedPointType: total_bits a positive integer, frac_bits a
\* non-negative integer, int_bits their difference.
WellFormed(t) ==
    /\ t.total_bits # None /\ t.total_bits > 0
    /\ t.frac_bits # None /\ t.frac_bits >= 0
    /\ int_bits(t) = t.total_bits - t.frac_bits

\* C10: every type a successful evaluation returns (the computed types of the
\* results) and every type stored in the identifier table is well-formed.
C10_TypesWellFormed ==
    /\ \A n \in DOMAIN known_types : WellFormed(known_types[n])
    /\ \A k \in DOMAIN results :
          /\ \A j \in DOMAIN results[k].computed : WellFormed(results[k].computed[j])
          /\ IsPaired(results[k]) =>
                \A j \in DOMAIN results[k].verilog_computed :
                    WellFormed(results[k].verilog_computed[j])

-----------------------------------------------------------------------------
(* Direct calls of check_overflow and of the shift rules *)

\* Operand types with integer fields; the fractions below zero are the ones a
\* division or a right shift leaves.
OperandTypes ==
    {FixedPointType(s, t, f) : s \in BOOLEAN, t \in 1..MaxBits, f \in (-MaxShift)..MaxBits}

\* Literal shift amounts: n, and <w>'sd<v>, which sign-extends below zero.
ShiftLiterals ==
    {Num("dec", 0, n) : n \in 0..MaxShift}
    \cup {Num("sd", w, v) : w \in 1..MaxShift, v \in 0..(Pow2(MaxShift) - 1)}

InitOps ==
    /\ args \in [x : OperandTypes, y : OperandTypes, n : ShiftLiterals]
    /\ ret = <<>>
    /\ pc = "call"
    /\ lines = <<>>
    /\ known_types = InitialKnownTypes
    /\ known_registers = {}
    /\ i = 0
    /\ last_was_comment = FALSE
    /\ results = <<>>

Frame == UNCHANGED <<lines, known_types, known_registers, i, last_was_comment,
                     results, args>>

\* check_overflow(x, y)
CallCheckOverflow ==
    /\ pc = "call"
    /\ ret' = [fn |-> "check_overflow", out |-> check_overflow(args.x, args.y)]
    /\ pc' = "returned"
    /\ Frame

\* TypeTransformer.factor on x << n >> n
CallShiftLeftRight ==
    /\ pc = "call"
    /\ ret' = [fn |-> "factor",
               out |-> ChainFold("factor", Returned(args.x, <<>>), <<"<<", ">>">>,
                                 <<number(args.n).ty, number(args.n).ty>>, 1)]
    /\ pc' = "returned"
    /\ Frame

\* TypeTransformer.factor on x << n >>> n
CallShiftLeftRightSigned ==
    /\ pc = "call"
    /\ ret' = [fn |-> "factor",
               out |-> ChainFold("factor", Returned(args.x, <<>>), <<"<<", ">>>">>,
                                 <<number(args.n).ty, number(args.n).ty>>, 1)]
    /\ pc' = "returned"
    /\ Frame

NextOps ==
    \/ CallCheckOverflow
    \/ CallShiftLeftRight
    \/ CallShiftLeftRightSigned

SpecOps == InitOps /\ [][NextOps]_vars

Called(fn) == pc = "returned" /\ ret.fn = fn

\* C8: check_overflow(computed, declared) returns a width issue iff
\* computed.total_bits > 2*declared.total_bits, a fractional issue iff the
\* frac_bits differ, a signedness issue iff the signedness differs and the
\* signed one of the two is not exactly one bit wider than the unsigned one;
\* it returns no other issue, each at most once, and none for equal types.
C8_CheckOverflowIssues ==
    Called("check_overflow") =>
        LET c == args.x
            d == args.y
            issues == ret.out.issues
            widening == \/ c.signed /\ c.total_bits = d.total_bits + 1
                        \/ d.signed /\ d.total_bits = c.total_bits + 1
        IN  /\ ret.out.exc = "none"
            /\ HasIssue(issues, "Width") <=> c.total_bits > 2 * d.total_bits
            /\ HasIssue(issues, "Frac") <=> c.frac_bits # d.frac_bits
            /\ HasIssue(issues, "Signedness") <=> (c.signed # d.signed /\ ~widening)
            /\ \A k \in DOMAIN issues : issues[k].kind \in {"Width", "Frac", "Signedness"}
            /\ \A k1, k2 \in DOMAIN issues : issues[k1].kind = issues[k2].kind => k1 = k2
            /\ TypeEq(c, d) => Len(issues) = 0

C8_Witness ==
    /\ Called("check_overflow")
    /\ args.x.signed /\ ~args.y.signed /\ args.x.total_bits = args.y.total_bits + 1
    /\ ret.out.issues = <<Issue("Frac", "")>>

\* C9 as claimed: for every operand type x and every literal shift amount n,
\* shifting left by n and then right by n (>> or >>>) yields a type whose
\* total_bits and frac_bits equal those of x.
C9_ShiftRoundTrip ==
    Called("factor") =>
        /\ ret.out.exc = "none"
        /\ ret.out.ty.total_bits = args.x.total_bits
        /\ ret.out.ty.frac_bits = args.x.frac_bits

\* C9 amended: for every operand type x with integer fields and every literal
\* amount n, x << n >> n and x << n >>> n restore total_bits; they restore
\* frac_bits when x.frac_bits = 0 or x.frac_bits + n # 0 (so for every
\* x.frac_bits >= 0 and n >= 0), and yield frac_bits 0 when x.frac_bits # 0
\* and x.frac_bits + n = 0.
C9_ShiftRoundTripUnlessCancelled ==
    Called("factor") =>
        LET x == args.x
            n == number(args.n).ty.value
        IN  /\ ret.out.exc = "none"
            /\ ret.out.ty.total_bits = x.total_bits
            /\ ret.out.ty.signed = x.signed
            /\ IF x.frac_bits # 0 /\ x.frac_bits + n = 0
               THEN ret.out.ty.frac_bits = 0
               ELSE ret.out.ty.frac_bits = x.frac_bits
            /\ (x.frac_bits >= 0 /\ n >= 0) => ret.out.ty.frac_bits = x.frac_bits

C9_Witness ==
    /\ Called("factor")
    /\ args.x.frac_bits > 0 /\ number(args.n).ty.value > 0
    /\ ret.out.ty.frac_bits = args.x.frac_bits
    /\ ret.out.ty.total_bits = args.x.total_bits

-----------------------------------------------------------------------------
(* Direct calls of parse_type and __str__, and the evaluation of literals *)

MaxDigits == 2      \* digits of each number of a type token

Digits == {0, 1, 8}

DigitStrings == UNION {[1..n -> Digits] : n \in 1..MaxDigits}

\* The texts the TYPE pattern [SU]\d+F\d+ matches.
TypeTokens == {Tok(s, t, f) : s \in {"S", "U"}, t \in DigitStrings, f \in DigitStrings}

\* <w>'<base><digits> with the digits' value n, a suffix-less n, and 8'sd200
Literals ==
    {Num(fmt, w, n) : fmt \in {"d", "sd", "h", "b"}, w \in 1..MaxBits,
                      n \in 0..(Pow2(MaxBits) - 1)}
    \cup {Num("dec", 0, n) : n \in 0..(Pow2(MaxBits) - 1)}
    \cup {Num("sd", 8, 200)}

InitAtoms ==
    /\ args \in {[tok |-> t] : t \in TypeTokens} \cup {[lit |-> l] : l \in Literals}
    /\ ret = <<>>
    /\ pc = "call"
    /\ lines = <<>>
    /\ known_types = InitialKnownTypes
    /\ known_registers = {}
    /\ i = 0
    /\ last_was_comment = FALSE
    /\ results = <<>>

\* parse_type(s)
CallParseType ==
    /\ pc = "call" /\ DOMAIN args = {"tok"}
    /\ ret' = [fn |-> "parse_type", out |-> parse_type(args.tok)]
    /\ pc' = "returned"
    /\ Frame

\* str(parse_type(s)), for a token parse_type accepts
CallStrParseType ==
    /\ pc = "call" /\ DOMAIN args = {"tok"}
    /\ parse_type(args.tok).exc = "none"
    /\ ret' = [fn |-> "str", out |-> FixedPointType_str(parse_type(args.tok).ty)]
    /\ pc' = "returned"
    /\ Frame

\* evaluate_expression on the text of one literal
CallEvaluateLiteral ==
    /\ pc = "call" /\ DOMAIN args = {"lit"}
    /\ ret' = [fn |-> "evaluate_expression",
               out |-> evaluate_expression(args.lit, known_types)]
    /\ pc' = "returned"
    /\ Frame

NextAtoms ==
    \/ CallParseType
    \/ CallStrParseType
    \/ CallEvaluateLiteral

SpecAtoms == InitAtoms /\ [][NextAtoms]_vars

\* A digit string without a leading zero, or the single digit 0.
Canonical(ds) == Len(ds) = 1 \/ ds[1] # 0

\* C11 as claimed: for every type token s that parse_type accepts,
\* str(parse_type(s)) equals s character for character.
C11_StrRoundTrip ==
    Called("str") => ret.out = args.tok

\* C11 amended: for every accepted type token s whose two numbers are written
\* without leading zeros, str(parse_type(s)) equals s; for every accepted
\* token, str(parse_type(s)) has the sign letter of s and the two numbers of s
\* with their leading zeros dropped.
C11_StrRoundTripCanonical ==
    Called("str") =>
        /\ (Canonical(args.tok.total) /\ Canonical(args.tok.frac)) => ret.out = args.tok
        /\ ret.out.sign = args.tok.sign
        /\ DigitsToInt(ret.out.total) = DigitsToInt(args.tok.total)
        /\ DigitsToInt(ret.out.frac) = DigitsToInt(args.tok.frac)
        /\ Canonical(ret.out.total) /\ Canonical(ret.out.frac)

C11_Witness ==
    /\ Called("str")
    /\ args.tok = Tok("S", <<1, 8>>, <<8>>)
    /\ ret.out = args.tok

\* C12: parse_type rejects every signed type token whose total bit count
\* equals its fractional bit count as numbers, so it never returns a signed
\* type with total_bits = frac_bits; it accepts the unsigned tokens with
\* total = frac.
C12_SignedTotalEqFracRejected ==
    Called("parse_type") =>
        LET equal == DigitsToInt(args.tok.total) = DigitsToInt(args.tok.frac)
        IN  /\ (args.tok.sign = "S" /\ equal) => ret.out.exc # "none"
            /\ ret.out.exc = "none" =>
                  ~(ret.out.ty.signed /\ ret.out.ty.total_bits = ret.out.ty.frac_bits)
            /\ (args.tok.sign = "U" /\ equal) => ret.out.exc = "none"

\* C13: <w>'sd<N> evaluates to a signed type of width w and frac 0 whose value
\* is N when N <= 2^(w-1) - 1 and N - 2^w otherwise; <w>'h, <w>'d and <w>'b
\* literals are unsigned of width w; a literal without size prefix is
\* unsigned, 32 bits, frac 0.
C13_LiteralTypes ==
    Called("evaluate_expression") =>
        LET l == args.lit
            t == ret.out.ty
        IN  /\ ret.out.exc = "none"
            /\ t.is_number /\ t.frac_bits = 0
            /\ l.fmt = "sd" =>
                  /\ t.signed /\ t.total_bits = l.size
                  /\ l.n <= Pow2(l.size - 1) - 1 => t.value = l.n
                  /\ l.n > Pow2(l.size - 1) - 1 => t.value = l.n - Pow2(l.size)
            /\ l.fmt \in {"h", "d", "b"} => ~t.signed /\ t.total_bits = l.size
            /\ l.fmt = "dec" => ~t.signed /\ t.total_bits = 32 /\ t.value = l.n

C13_Witness ==
    /\ Called("evaluate_expression")
    /\ args.lit = Num("sd", 8, 200)
    /\ ret.out.ty.value = -56 /\ ret.out.ty.signed /\ ret.out.ty.total_bits = 8

-----------------------------------------------------------------------------
(* Calls of evaluate_expression, one after the other, on one checker *)

\* The forms a slice bound can take.
SliceBounds ==
    { Num("dec", 0, 3), Num("dec", 0, 0), Num("d", 4, 7), FloatLit,
      Paren(Num("dec", 0, 3)),
      Ident("vol"), Ident("q"), Paren(Ident("vol")), Neg(Ident("vol")),
      Abs(Ident("vol")), Signed("$signed", Ident("vol")),
      TypeAtom(U8F0), TypeAnnotated(U8F0, Ident("vol")),
      TypeAnnotated(U8F0, Num("dec", 0, 3)),
      ArrayAccess("vol", Num("dec", 0, 0)), BitSlice("vol", Num("dec", 0, 3), Num("dec", 0, 0)),
      Concat(<<Ident("vol"), Ident("vol")>>),
      Chain("expr", Num("dec", 0, 1), << <<"+", Num("dec", 0, 2)>> >>),
      Chain("term", Ident("vol"), << <<"*", Num("dec", 0, 2)>> >>),
      Chain("factor", Ident("vol"), << <<">>", Num("dec", 0, 1)>> >>) }

\* name[hi:lo] with every form on one side and a literal or an identifier on
\* the other; zz is in no identifier table
Slices ==
    {BitSlice(name, b[1], b[2]) :
        name \in {"arr", "zz"},
        b \in (SliceBounds \X {Num("dec", 0, 0), Ident("vol")})
               \cup ({Num("dec", 0, 0), Ident("vol")} \X SliceBounds)}

\* The elements of the concatenations and the values of the replications.
Elements == {Ident("vol"), Ident("a"), Num("d", 4, 1), Signed("$signed", Ident("vol"))}

\* {e1}, {e1, e2}, {e1, e2, e3}
Concatenations == {Concat(es) : es \in UNION {[1..k -> Elements] : k \in 1..3}}

\* {count{value}}: the grammar derives it as a concatenation of one replication
Replications ==
    {Concat(<<Replication(c, v)>>) :
        c \in {Num("dec", 0, 2), Num("d", 4, 3), Ident("vol")}, v \in Elements}

\* vol << 0, signed(vol), U8F4 vol: expressions that leave advisories
Advised ==
    { Chain("factor", Ident("vol"), << <<"<<", Num("dec", 0, 0)>> >>),
      Signed("signed", Ident("vol")),
      TypeAnnotated(U8F4, Ident("vol")) }

\* TYPE ident, TYPE number, TYPE array_access
Annotated ==
    {TypeAnnotated(tok, sub) :
        tok \in {U8F0, U8F4, S8F8, S12F8},
        sub \in { Ident("vol"), Ident("a"), Num("dec", 0, 3), Num("d", 4, 1),
                  ArrayAccess("arr", Num("dec", 0, 0)), ArrayAccess("vol", Ident("vol")),
                  BitSlice("arr", Num("dec", 0, 3), Num("dec", 0, 0)) }}

Expressions ==
    Slices \cup Concatenations \cup Replications \cup Advised \cup Annotated
    \cup {VolPlus1, APlusA}

\* a checker whose build_type_database has read one of the headers
InitEval ==
    /\ \E h \in Headers :
          LET db == build_type_database([types |-> InitialKnownTypes,
                                         registers |-> {}], h, 1)
          IN  known_types = db.types /\ known_registers = db.registers
    /\ args = <<>>
    /\ ret = <<>>
    /\ pc = "call"
    /\ lines = <<>>
    /\ i = 0
    /\ last_was_comment = FALSE
    /\ results = <<>>

\* evaluate_expression(expr), after whatever was evaluated before: before is
\* the list the previous call's transformer was left with
CallEvaluateExpression ==
    /\ pc \in {"call", "returned"}
    /\ \E e \in Expressions :
          LET before == IF pc = "call" THEN <<>> ELSE ret.out.issues
          IN  ret' = [fn |-> "evaluate_expression", expr |-> e, before |-> before,
                      out |-> AfterIssues(NewTransformer(before),
                                          evaluate_expression(e, known_types))]
    /\ pc' = "returned"
    /\ Frame

NextEval == CallEvaluateExpression

SpecEval == InitEval /\ [][NextEval]_vars

Evaluated(kind) ==
    pc = "returned" /\ ret.fn = "evaluate_expression" /\ ret.expr.k = kind

\* The bounds of the slice evaluate, and not both to a literal's type.
NonConstantBounds(e, kt) ==
    /\ Eval(e.hi, kt).exc = "none" /\ Eval(e.lo, kt).exc = "none"
    /\ ~(Eval(e.hi, kt).ty.is_number /\ Eval(e.lo, kt).ty.is_number)

RECURSIVE SumWidths(_, _)
SumWidths(tys, j) == IF j > Len(tys) THEN 0 ELSE tys[j].total_bits + SumWidths(tys, j + 1)

\* C19: evaluating {e1, ..., ek}, k >= 1, yields a type whose total_bits is the
\* sum of the total_bits of all k elements and whose signedness and frac_bits
\* are those of the last element.
C19_ConcatenationSumsAll ==
    (/\ Evaluated("concatenation")
     /\ \A j \in DOMAIN ret.expr.es :
           /\ ret.expr.es[j].k # "replication"
           /\ Eval(ret.expr.es[j], known_types).exc = "none") =>
        LET tys == [j \in DOMAIN ret.expr.es |-> Eval(ret.expr.es[j], known_types).ty]
        IN  /\ ret.out.exc = "none"
            /\ ret.out.ty.total_bits = SumWidths(tys, 1)
            /\ ret.out.ty.signed = tys[Len(tys)].signed
            /\ ret.out.ty.frac_bits = tys[Len(tys)].frac_bits

\* C20: evaluating {count{value}} yields, as the type evaluate_expression
\* returns, total_bits = n * value.total_bits with the signedness and
\* frac_bits of value when count is a literal n, and width 32, frac 0 when
\* count is no literal.
C20_ReplicationWidth ==
    (/\ Evaluated("concatenation")
     /\ ret.expr.es[1].k = "replication"
     /\ Eval(ret.expr.es[1].count, known_types).exc = "none"
     /\ Eval(ret.expr.es[1].val, known_types).exc = "none") =>
        LET c == Eval(ret.expr.es[1].count, known_types).ty
            v == Eval(ret.expr.es[1].val, known_types).ty
        IN  /\ ret.out.exc = "none"
            /\ c.is_number =>
                  /\ ret.out.ty.total_bits = c.value * v.total_bits
                  /\ ret.out.ty.signed = v.signed
                  /\ ret.out.ty.frac_bits = v.frac_bits
            /\ ~c.is_number =>
                  ret.out.ty.total_bits = 32 /\ ret.out.ty.frac_bits = 0

-----------------------------------------------------------------------------
(* analyze_file on a second file: a new checker analyses B; then another new
   checker analyses A and, after it, B.  args holds the calls still to make,
   ret the result lists the calls before returned. *)

\* The files analysed before B: declarations only.
FirstFiles == Headers

InitTwoFiles ==
    /\ \E A \in FirstFiles, B \in Files :
          /\ lines = B
          /\ args = << [file |-> A, fresh |-> TRUE], [file |-> B, fresh |-> FALSE] >>
    /\ ret = <<>>
    /\ known_types = InitialKnownTypes
    /\ known_registers = {}
    /\ pc = "start"
    /\ i = 0
    /\ last_was_comment = FALSE
    /\ results = <<>>

\* The next call of analyze_file, on a new FixedPointChecker() when fresh and
\* on the checker of the call before otherwise.
AnalyzeNextFile ==
    /\ pc = "done" /\ Len(args) > 0
    /\ ret' = Append(ret, results)
    /\ lines' = args[1].file
    /\ args' = Tail(args)
    /\ IF args[1].fresh
       THEN known_types' = InitialKnownTypes /\ known_registers' = {}
       ELSE UNCHANGED <<known_types, known_registers>>
    /\ pc' = "start"
    /\ i' = 0
    /\ last_was_comment' = FALSE
    /\ results' = <<>>

NextTwoFiles == Next \/ AnalyzeNextFile

SpecTwoFiles == InitTwoFiles /\ [][NextTwoFiles]_vars

\* C16: analysing B after A with the same checker returns the same results
\* for B as analysing B with a new checker.
C16_SecondFileAsFresh ==
    (pc = "done" /\ Len(args) = 0 /\ Len(ret) = 2) => results = ret[1]

-----------------------------------------------------------------------------
(* Direct calls of add_types and multiply_types, in both modes *)

S12F11 == FixedPointType(TRUE, 12, 11)

\* The operand types of the direct calls, and the pairs of spec examples.
InitArith ==
    /\ args \in [x : OperandTypes, y : OperandTypes]
                \cup {[x |-> S12F11, y |-> S12F11],
                      [x |-> FixedPointType(FALSE, 8, 0), y |-> FixedPointType(FALSE, 8, 0)]}
    /\ ret = <<>>
    /\ pc = "call"
    /\ lines = <<>>
    /\ known_types = InitialKnownTypes
    /\ known_registers = {}
    /\ i = 0
    /\ last_was_comment = FALSE
    /\ results = <<>>

\* FixedPointOps(verilog, transformer).add_types(x, y, op)
CallAddTypes ==
    /\ pc = "call"
    /\ \E verilog \in BOOLEAN, op \in {"+", "-"} :
          ret' = [fn |-> "add_types", verilog |-> verilog, op |-> op,
                  out |-> add_types(args.x, args.y, op, verilog)]
    /\ pc' = "returned"
    /\ Frame

\* FixedPointOps(verilog, transformer).multiply_types(x, y)
CallMultiplyTypes ==
    /\ pc = "call"
    /\ \E verilog \in BOOLEAN :
          ret' = [fn |-> "multiply_types", verilog |-> verilog,
                  out |-> multiply_types(args.x, args.y, verilog)]
    /\ pc' = "returned"
    /\ Frame

\* FixedPointOps(verilog, transformer).divide_types(x, y)
CallDivideTypes ==
    /\ pc = "call"
    /\ \E verilog \in BOOLEAN :
          ret' = [fn |-> "divide_types", verilog |-> verilog,
                  out |-> divide_types(args.x, args.y, verilog)]
    /\ pc' = "returned"
    /\ Frame

\* TypeTransformer.expr on x + y and on y + x (strict mode), one after the other
CallAddTypesBothOrders ==
    /\ pc = "call"
    /\ \E op \in {"+", "-"} :
          ret' = [fn |-> "expr", op |-> op,
                  out |-> ChainFold("expr", Returned(args.x, <<>>), <<op>>, <<args.y>>, 1),
                  swapped |-> ChainFold("expr", Returned(args.y, <<>>), <<op>>,
                                        <<args.x>>, 1)]
    /\ pc' = "returned"
    /\ Frame

NextArith ==
    \/ CallAddTypes
    \/ CallMultiplyTypes
    \/ CallDivideTypes
    \/ CallAddTypesBothOrders

SpecArith == InitArith /\ [][NextArith]_vars

\* C17: add_types(L, R) returns frac_bits = L.frac_bits; in truncating mode
\* total_bits = max of the widths and signed = L.signed AND R.signed; in
\* strict mode total_bits = max of the widths if both fracs are nonzero, else
\* the width of the operand with nonzero frac, else R.total_bits, and signed =
\* L.signed OR R.signed; for both + and -.
C17_AddTypes ==
    Called("add_types") =>
        LET L == args.x
            R == args.y
            t == ret.out.ty
        IN  /\ ret.out.exc = "none"
            /\ t.frac_bits = L.frac_bits
            /\ ret.verilog =>
                  /\ t.total_bits = Max2(L.total_bits, R.total_bits)
                  /\ t.signed = (L.signed /\ R.signed)
            /\ ~ret.verilog =>
                  /\ t.signed = (L.signed \/ R.signed)
                  /\ (L.frac_bits # 0 /\ R.frac_bits # 0) =>
                        t.total_bits = Max2(L.total_bits, R.total_bits)
                  /\ (L.frac_bits # 0 /\ R.frac_bits = 0) => t.total_bits = L.total_bits
                  /\ (L.frac_bits = 0 /\ R.frac_bits # 0) => t.total_bits = R.total_bits
                  /\ (L.frac_bits = 0 /\ R.frac_bits = 0) => t.total_bits = R.total_bits

C17_Witness ==
    /\ Called("add_types") /\ ~ret.verilog
    /\ args.x = FixedPointType(FALSE, 4, 0) /\ args.y = FixedPointType(FALSE, 2, 0)
    /\ ret.out.ty = FixedPointType(FALSE, 2, 0)

\* C18: multiply_types(L, R) returns frac_bits = L.frac + R.frac if both are
\* nonzero, else the nonzero one, else 0; total_bits = max of the widths in
\* truncating mode, and in strict mode the sum of the widths if both operands
\* are fractional, else the width of the fractional operand, else
\* R.total_bits; signed = AND of the signs in truncating mode, OR in strict
\* mode.  Strict S12F11 * S12F11 is signed, width 24, frac 22.
C18_MultiplyTypes ==
    Called("multiply_types") =>
        LET L == args.x
            R == args.y
            t == ret.out.ty
            both == L.frac_bits # 0 /\ R.frac_bits # 0
        IN  /\ ret.out.exc = "none"
            /\ both => t.frac_bits = L.frac_bits + R.frac_bits
            /\ (L.frac_bits # 0 /\ R.frac_bits = 0) => t.frac_bits = L.frac_bits
            /\ (L.frac_bits = 0 /\ R.frac_bits # 0) => t.frac_bits = R.frac_bits
            /\ (L.frac_bits = 0 /\ R.frac_bits = 0) => t.frac_bits = 0
            /\ ret.verilog =>
                  /\ t.total_bits = Max2(L.total_bits, R.total_bits)
                  /\ t.signed = (L.signed /\ R.signed)
            /\ ~ret.verilog =>
                  /\ t.signed = (L.signed \/ R.signed)
                  /\ both => t.total_bits = L.total_bits + R.total_bits
                  /\ (L.frac_bits # 0 /\ R.frac_bits = 0) => t.total_bits = L.total_bits
                  /\ (L.frac_bits = 0) /\ ~both => t.total_bits = R.total_bits
            /\ (~ret.verilog /\ L = S12F11 /\ R = S12F11) =>
                  t = FixedPointType(TRUE, 24, 22)

C18_Witness ==
    /\ Called("multiply_types") /\ ~ret.verilog
    /\ args.x = S12F11 /\ args.y = S12F11
    /\ ret.out.ty.signed /\ ret.out.ty.total_bits = 24 /\ ret.out.ty.frac_bits = 22

-----------------------------------------------------------------------------
(* add_types advisories, divide_types, and the order of the operands of a sum *)

\* C21 as claimed: add_types appends a fractional-bits-mismatch advisory
\* whenever the operands' frac_bits differ by more than 1, an operand with
\* frac_bits 0 included, appends none when they differ by at most 1, and
\* always returns a type.
C21_AdvisoryOnAnyMismatch ==
    Called("add_types") =>
        /\ ret.out.exc = "none"
        /\ HasIssue(ret.out.issues, "FracMismatch")
              <=> AbsVal(args.x.frac_bits - args.y.frac_bits) > 1

\* C21 amended: add_types appends the advisory, once, exactly when both
\* operands have nonzero frac_bits that differ by more than 1; an operand with
\* frac_bits 0 never draws it; a type is returned in every case.
C21_AdvisoryOnFractionalMismatch ==
    Called("add_types") =>
        /\ ret.out.exc = "none"
        /\ HasIssue(ret.out.issues, "FracMismatch")
              <=> (/\ args.x.frac_bits # 0 /\ args.y.frac_bits # 0
                   /\ AbsVal(args.x.frac_bits - args.y.frac_bits) > 1)
        /\ Len(ret.out.issues) <= 1
        /\ ret.out.ty.frac_bits = args.x.frac_bits

C21_Witness ==
    /\ Called("add_types")
    /\ args.x.frac_bits = 1 /\ args.y.frac_bits = 3
    /\ ret.out.issues = <<Issue("FracMismatch", ret.op)>>
    /\ ret.out.exc = "none"

\* C22 as claimed: divide_types(L, R) returns, in both modes, total_bits =
\* max of the widths if both operands have nonzero frac, else the width of
\* the operand with nonzero frac, else R.total_bits; frac_bits = L.frac -
\* R.frac if both are nonzero, else whichever is nonzero; signed = AND of the
\* signs in truncating mode, OR in strict mode.
C22_DivideTypesBothModes ==
    Called("divide_types") =>
        LET L == args.x
            R == args.y
            t == ret.out.ty
            both == L.frac_bits # 0 /\ R.frac_bits # 0
        IN  /\ ret.out.exc = "none"
            /\ both => t.total_bits = Max2(L.total_bits, R.total_bits)
            /\ (~both /\ L.frac_bits # 0) => t.total_bits = L.total_bits
            /\ (~both /\ L.frac_bits = 0) => t.total_bits = R.total_bits
            /\ both => t.frac_bits = L.frac_bits - R.frac_bits
            /\ (~both /\ L.frac_bits # 0) => t.frac_bits = L.frac_bits
            /\ (~both /\ L.frac_bits = 0) => t.frac_bits = R.frac_bits
            /\ t.signed = IF ret.verilog THEN L.signed /\ R.signed
                          ELSE L.signed \/ R.signed

\* C22 amended: the width rule above is that of strict mode; in truncating
\* mode total_bits = max of the widths for all operands.  The frac_bits and
\* the signedness are as claimed.
C22_DivideTypesPerMode ==
    Called("divide_types") =>
        LET L == args.x
            R == args.y
            t == ret.out.ty
            both == L.frac_bits # 0 /\ R.frac_bits # 0
        IN  /\ ret.out.exc = "none"
            /\ ret.verilog => t.total_bits = Max2(L.total_bits, R.total_bits)
            /\ (~ret.verilog /\ both) => t.total_bits = Max2(L.total_bits, R.total_bits)
            /\ (~ret.verilog /\ ~both /\ L.frac_bits # 0) => t.total_bits = L.total_bits
            /\ (~ret.verilog /\ ~both /\ L.frac_bits = 0) => t.total_bits = R.total_bits
            /\ both => t.frac_bits = L.frac_bits - R.frac_bits
            /\ (~both /\ L.frac_bits # 0) => t.frac_bits = L.frac_bits
            /\ (~both /\ L.frac_bits = 0) => t.frac_bits = R.frac_bits
            /\ t.signed = IF ret.verilog THEN L.signed /\ R.signed
                          ELSE L.signed \/ R.signed

C22_Witness ==
    /\ Called("divide_types") /\ ret.verilog
    /\ args.x = FixedPointType(FALSE, 4, 0) /\ args.y = FixedPointType(TRUE, 2, 1)
    /\ ret.out.ty = FixedPointType(FALSE, 4, 1)

\* C28 as claimed: in strict mode, for all L and R with equal frac_bits, the
\* sums L + R and R + L have the same type.
C28_SumOrderIndependent ==
    (Called("expr") /\ args.x.frac_bits = args.y.frac_bits) =>
        /\ ret.out.exc = "none" /\ ret.swapped.exc = "none"
        /\ TypeEq(ret.out.ty, ret.swapped.ty)

\* C28 amended: for L and R with equal frac_bits the two sums agree in
\* signedness and frac_bits; they agree in total_bits when the common
\* frac_bits is nonzero (the larger width) or the widths are equal; with
\* frac_bits 0 each sum has the width of its right operand, so the two types
\* differ whenever the widths differ.
C28_SumOrderWidthOfRight ==
    (Called("expr") /\ args.x.frac_bits = args.y.frac_bits) =>
        LET a == ret.out.ty
            b == ret.swapped.ty
        IN  /\ ret.out.exc = "none" /\ ret.swapped.exc = "none"
            /\ a.signed = b.signed /\ a.frac_bits = b.frac_bits
            /\ args.x.frac_bits # 0 =>
                  /\ a.total_bits = Max2(args.x.total_bits, args.y.total_bits)
                  /\ b.total_bits = a.total_bits
            /\ args.x.frac_bits = 0 =>
                  /\ a.total_bits = args.y.total_bits
                  /\ b.total_bits = args.x.total_bits
            /\ TypeEq(a, b) <=> (args.x.frac_bits # 0
                                 \/ args.x.total_bits = args.y.total_bits)

C28_Witness ==
    /\ Called("expr")
    /\ args.x = FixedPointType(TRUE, 3, 2) /\ args.y = FixedPointType(FALSE, 4, 2)
    /\ ret.out.ty = FixedPointType(TRUE, 4, 2)
    /\ ret.swapped.ty = ret.out.ty

-----------------------------------------------------------------------------
(* Bit slices with literal bounds, and type-annotated sub-expressions *)

\* An integer literal, sized or not.
IsIntegerLiteral(e) == e.k = "number" /\ e.fmt # "float"

\* C23: evaluating name[hi:lo] with literal bounds on an identifier of the
\* table returns width hi - lo + 1 with the base identifier's signedness and
\* frac_bits when hi - lo + 1 >= 1, and fails the expression (a ValueError of
\* evaluate_expression, no type) when hi - lo + 1 <= 0.
C23_LiteralSliceWidth ==
    (/\ Evaluated("bit_slice")
     /\ ret.expr.name \in DOMAIN known_types
     /\ IsIntegerLiteral(ret.expr.hi) /\ IsIntegerLiteral(ret.expr.lo)) =>
        LET base == known_types[ret.expr.name]
            width == ret.expr.hi.n - ret.expr.lo.n + 1
        IN  IF width >= 1
            THEN /\ ret.out.exc = "none"
                 /\ ret.out.ty = FixedPointType(base.signed, width, base.frac_bits)
                 /\ ret.out.issues = <<>>
            ELSE ret.out.exc = "ValueError"

C23_Witness ==
    /\ Evaluated("bit_slice")
    /\ ret.expr = BitSlice("arr", Num("dec", 0, 0), Num("dec", 0, 3))
    /\ "arr" \in DOMAIN known_types
    /\ ret.out.exc = "ValueError"

\* C24: for TYPE sub, when sub is a bare number literal the result type is
\* exactly the declared TYPE and no advisory is added; when sub is an
\* identifier or an array access the result type is sub's computed type, and
\* the type-annotation-mismatch advisory is added exactly when the declared
\* TYPE differs from the computed type.
C24_TypeAnnotated ==
    (/\ Evaluated("type_annotated_expr")
     /\ parse_type(ret.expr.tok).exc = "none"
     /\ Eval(ret.expr.sub, known_types).exc = "none") =>
        LET declared == parse_type(ret.expr.tok).ty
            sub == Eval(ret.expr.sub, known_types)
        IN  /\ ret.out.exc = "none"
            /\ ret.expr.sub.k = "number" =>
                  ret.out.ty = declared /\ ret.out.issues = <<>>
            /\ ret.expr.sub.k # "number" =>
                  /\ ret.out.ty = sub.ty
                  /\ HasIssue(ret.out.issues, "AnnotationMismatch")
                        <=> ~TypeEq(declared, sub.ty)
                  /\ Len(ret.out.issues) =
                        Len(sub.issues) + (IF TypeEq(declared, sub.ty) THEN 0 ELSE 1)

C24_Witness ==
    /\ Evaluated("type_annotated_expr")
    /\ ret.expr = TypeAnnotated(U8F4, Ident("vol"))
    /\ ret.out.ty = FixedPointType(FALSE, 8, 0)
    /\ ret.out.issues = <<Issue("AnnotationMismatch", "")>>

-----------------------------------------------------------------------------
(* The value of a signed-decimal literal *)

\* C29: for every literal <w>'sd<N>, w >= 1, the value stored for the literal
\* lies within the signed range of w bits: -2^(w-1) <= value <= 2^(w-1) - 1.
C29_SignedLiteralInRange ==
    (Called("evaluate_expression") /\ args.lit.fmt = "sd") =>
        /\ ret.out.exc = "none"
        /\ ret.out.ty.value >= -Pow2(args.lit.size - 1)
        /\ ret.out.ty.value <= Pow2(args.lit.size - 1) - 1

-----------------------------------------------------------------------------
(* build_type_database on sequences of declarations *)

MaxDecls == 2       \* declaration lines of a file

U16F4 == Tok("U", <<1, 6>>, <<4>>)

\* s + 1
SPlus1 == Chain("expr", Ident("s"), << <<"+", Num("dec", 0, 1)>> >>)

\* reg [7:0] vol; // U8F0        reg signed [7:0] s;
\* reg [7:0] a; // U8F4          reg signed [7:0] a; // U16F4
\* reg [7:0] arr_8x [0:7]; // U8F4     reg [0:7] rev;
\* localparam signed [11:0] a = 12'sd224; // S12F8
DeclLines ==
    { DeclVol,
      RegDecl(TRUE, 7, 0, "s", <<>>),
      RegDecl(FALSE, 7, 0, "a", <<U8F4>>),
      RegDecl(TRUE, 7, 0, "a", <<U16F4>>),
      RegDecl(FALSE, 7, 0, "arr_8x", <<U8F4>>),
      RegDecl(FALSE, 0, 7, "rev", <<>>),
      LocalparamDecl(TRUE, 11, 0, "a", Num("sd", 12, 224), <<S12F8>>),
      Other }

DeclSeqs == UNION {[1..n -> DeclLines] : n \in 0..MaxDecls}

\* At most one line after the declarations.
DeclBodies == {<<>>} \cup {<<l>> : l \in BodyLines \cup {Annotation(U8F0, SPlus1)}}

InitDecl ==
    /\ lines \in {d \o b : d \in DeclSeqs, b \in DeclBodies}
    /\ known_types = InitialKnownTypes
    /\ known_registers = {}
    /\ pc = "start"
    /\ i = 0
    /\ last_was_comment = FALSE
    /\ results = <<>>
    /\ args = <<>>
    /\ ret = <<>>

SpecDecl == InitDecl /\ [][Next]_vars

\* The names a declaration line writes in the identifier table.
KeysOf(line) ==
    IF line.kind = "reg"
    THEN IF line.name = "arr_8x" THEN {"arr_8x", "arr"} ELSE {line.name}
    ELSE IF line.kind = "localparam" THEN {line.name} ELSE {}

\* No declaration after line j writes the name again.
LastWriter(j, name) == \A k \in (j + 1)..Len(lines) : name \notin KeysOf(lines[k])

\* C25: for every register declaration, build_type_database records a type
\* with total_bits = msb - lsb + 1; signedness and frac_bits come from the
\* type token of the trailing comment when there is one (the width does not),
\* else the signedness is the signed keyword and frac_bits is 0; a name ending
\* in _8x is recorded under the name without the suffix too, with that type.
\* (A later declaration of the same name replaces the record.)
C25_RegisterTypes ==
    pc # "start" =>
        \A j \in DOMAIN lines :
            lines[j].kind = "reg" =>
                LET d == lines[j]
                    expected ==
                        IF Len(d.annot) > 0
                        THEN FixedPointType(d.annot[1].sign = "S", d.msb - d.lsb + 1,
                                            DigitsToInt(d.annot[1].frac))
                        ELSE FixedPointType(d.signedKw, d.msb - d.lsb + 1, 0)
                IN  \A name \in KeysOf(d) :
                        /\ name \in DOMAIN known_types
                        /\ name \in known_registers
                        /\ LastWriter(j, name) => known_types[name] = expected

C25_Witness ==
    /\ pc = "scan"
    /\ \E j \in DOMAIN lines : lines[j] = RegDecl(TRUE, 7, 0, "a", <<U16F4>>)
    /\ \E j \in DOMAIN lines : lines[j].kind = "reg" /\ lines[j].name = "arr_8x"
    /\ known_types["a"] = FixedPointType(FALSE, 8, 4)
    /\ known_types["arr"] = FixedPointType(FALSE, 8, 4)

\* C26: after build_type_database, for every sequence of declaration lines,
\* every name of the known-register set is a key of the identifier table;
\* no result of analyze_file has status MISSING_TYPE.
C26_RegistersHaveTypes ==
    /\ known_registers \subseteq DOMAIN known_types
    /\ \A k \in DOMAIN results : results[k].status # "MISSING_TYPE"

C26_Witness ==
    /\ pc = "done"
    /\ "s" \in known_registers
    /\ \E k \in DOMAIN results :
          /\ results[k].expression = SPlus1
          /\ results[k].status \in {"OK", "ERROR"}

-----------------------------------------------------------------------------
(* The statement paired with an annotation comment *)

\* Line v is the first line after line n that is neither blank nor a comment.
IsNearestStatement(n, v) ==
    /\ v \in (n + 1)..Len(lines)
    /\ lines[v].kind # "blank" /\ ~IsCommentLine(lines[v])
    /\ \A j \in (n + 1)..(v - 1) : lines[j].kind = "blank" \/ IsCommentLine(lines[j])

\* Every line between lines n1 and n2 is blank or a comment.
OnlyCommentsBetween(n1, n2) ==
    \A j \in (n1 + 1)..(n2 - 1) : lines[j].kind = "blank" \/ IsCommentLine(lines[j])

\* The results of annotation comments whose expression evaluated.
IsCommentSideResult(r) == Len(r.declared) = 1 /\ r.status \in {"OK", "ERROR"}

-----------------------------------------------------------------------------
(* A failure of the statement side *)

\* Annotation comment n was scanned, its expression evaluates, and the right-
\* hand side of its paired statement raises in evaluate_expression.
StatementSideFails(n) ==
    /\ n \in Scanned
    /\ lines[n].kind = "annotation"
    /\ evaluate_expression(lines[n].expr, known_types).exc = "none"
    /\ \E v \in DOMAIN lines :
          /\ IsNearestStatement(n, v)
          /\ Len(parse_verilog_assignment(lines[v])) > 0
          /\ evaluate_expression(parse_verilog_assignment(lines[v])[1],
                                 known_types).exc # "none"

\* C30: when the comment expression evaluates and the right-hand side of the
\* paired statement fails to parse or evaluate, one result is emitted for the
\* comment, with the expression, declared type, computed type, issue list and
\* status (OK or ERROR by the issue list) of the comment alone, no
\* statement-side computed type and statement-side status PARSE_ERROR.
C30_StatementFailureKeepsCommentSide ==
    \A n \in DOMAIN lines :
        StatementSideFails(n) =>
            /\ Cardinality(ResultsFor(n)) = 1
            /\ \A k \in ResultsFor(n) :
                  LET r == results[k]
                      declared == parse_type(lines[n].tok).ty
                      ev == evaluate_expression(lines[n].expr, known_types)
                  IN  /\ r.expression = lines[n].expr
                      /\ r.declared = <<declared>>
                      /\ r.computed = <<ev.ty>>
                      /\ check_overflow(ev.ty, declared).exc = "none"
                      /\ r.issues = check_overflow(ev.ty, declared).issues \o ev.issues
                      /\ r.status = StatusOf(r.issues)
                      /\ IsPaired(r)
                      /\ r.verilog_computed = <<>>
                      /\ r.verilog_status = "PARSE_ERROR"

====
